---- MODULE Spec2Model ----
(***************************************************************************)
(* State-machine model of the bladeRF receive block                        *)
(* (lib/bladerf/bladerf_source_c.cc): the start()/stop()/work() session    *)
(* control, the consecutive-failure counter, the 8-bit sample conversion   *)
(* and the channel deinterleaver.                                          *)
(*                                                                         *)
(* Memory is modelled cell by cell.  A raw cell is <<w>> (an int16 word w) *)
(* or <<>> (indeterminate: fresh from volk_malloc, or left behind by a     *)
(* failed transfer).  A float is <<num, den>> standing for num/den.  Every *)
(* read of an indeterminate cell is resolved by a nondeterministic choice. *)
(* An access outside an allocated block is recorded in oob; the call then  *)
(* either completes on the adjacent memory or ends in a memory fault, and  *)
(* nothing after it is modelled.                                           *)
(***************************************************************************)
EXTENDS Integers, Sequences, FiniteSets, TLC

(* ------------------------------ bounds --------------------------------- *)

\* samples_per_buffer is 2 * BufUnits
BufUnits == 1
\* a caller passes to work() any noutput_items up to samples_per_buffer +
\* MaxOver, or twice samples_per_buffer
MaxOver == 0
\* cap on the failure counter (an int in the code)
MaxFailures == 4
\* cap on the number of live heap blocks
MaxHeapBlocks == 4

(* ------------------------- program constants --------------------------- *)

MAX_CONSECUTIVE_FAILURES == 3
WORK_DONE == -1
MaxChannels == 2
NULL == 0

(* ----------------------------- test data ------------------------------- *)

\* int16 words with distinct high and low bytes:
\* 0x7F40 (127, 64), 0x80FF (-128, -1), 0x0102 (1, 2), 0xFE03 (-2, 3), 0x0000
SampleWords == <<32576, -32513, 258, -509, 0>>

\* the device delivers SampleWords cyclically, starting at one of these
\* phases; indeterminate cells hold such a stream too when they are read
Phases == {0, 1}

DeviceWord(phase, j) == SampleWords[((phase + j) % Len(SampleWords)) + 1]

(* ------------------------------ helpers -------------------------------- *)

Min(a, b) == IF a <= b THEN a ELSE b
Max(a, b) == IF a >= b THEN a ELSE b

\* (int8_t)(x & 0xFF) for an int16 x: the low byte, reinterpreted as signed
ToInt8(b) == IF b >= 128 THEN b - 256 ELSE b
LowByte(x) == ToInt8((x % 65536) % 256)
\* (int8_t)((x >> 8) & 0xFF): the high byte, reinterpreted as signed
HighByte(x) == ToInt8(((x % 65536) \div 256) % 256)
\* (variant: the result is clamped to [-1.0, 1.0])
ScaleClamped(b) == <<Max(b, -127), 127>>

\* ((float)b) / 127.0
Scale(b) == <<b, 127>>

\* num_streams(_layout)
num_streams(layout) == IF layout = "RX_X2" THEN 2 ELSE 1

\* volk_malloc: the lowest address not in use
Malloc(h) == CHOOSE a \in 1..(Cardinality(h) + 1) :
                 a \notin h /\ \A b \in 1..(a - 1) : b \in h

\* contents of a freshly allocated block of len cells
Fresh(len) == [j \in 0..(len - 1) |-> <<>>]

\* one call of the device API: ch is the channel (-1: none), arg the enable
\* flag or the sample count (0: none), ok whether it returned status 0
Call(api, ch, arg, ok) == [api |-> api, ch |-> ch, arg |-> arg, ok |-> ok]

VARIABLES
  max_channels,         \* get_max_channels()
  num_channels,         \* get_num_channels()
  _samples_per_buffer,
  _layout,
  _enables,             \* get_channel_enable(), per RX channel
  _running,
  _failures,
  _16icbuf,             \* address of the raw buffer, or NULL
  _32fcbuf,             \* address of the converted buffer, or NULL
  heap,                 \* addresses of the live volk_malloc blocks
  raw16,                \* contents of the block _16icbuf points to
  fc32,                 \* contents of the block _32fcbuf points to, as floats
  dev_enabled,          \* the device's RX modules, as left by bladerf_enable_module
  out,                  \* what the last call wrote to output_items, per port
  last,                 \* the last call: operation, argument, result, device calls
  oob,                  \* TRUE once memory outside a block has been accessed
  clean,                \* history: the current session started with _failures = 0
  consec,               \* history: failed transfers in a row in this session
  failedSince,          \* history: failed transfers since the last successful one
  fatal,                \* history: work() returned WORK_DONE in this session
  d_mutex,              \* the thread holding the session lock, or "none"
  pc,                   \* where the scheduler and the application thread are
  _was_running,         \* set_antenna()'s local copy of _running
  _chanmap,             \* per device channel, the block channel wired to it, or -1
  ctor,                 \* the constructor's progress through its option handling
  halted                \* history: the control thread's stop() has returned and
                        \* no start() called by the application has run since

vars == <<max_channels, num_channels, _samples_per_buffer, _layout, _enables,
          _running, _failures, _16icbuf, _32fcbuf, heap, raw16, fc32,
          dev_enabled, out, last, oob, clean, consec, failedSince, fatal,
          d_mutex, pc, _was_running, _chanmap, ctor, halted>>

config == <<max_channels, num_channels, _samples_per_buffer, _layout, _enables>>
history == <<clean, consec, failedSince, fatal>>
threads == <<d_mutex, pc, _was_running, _chanmap, halted>>

Channels == 0..(max_channels - 1)
NoOutput == [c \in 0..(num_channels - 1) |-> <<>>]

Result(op, n, ret, threw, fault, calls) ==
  [op |-> op, n |-> n, ret |-> ret, threw |-> threw, fault |-> fault,
   calls |-> calls]

(* ---------------------------- construction ----------------------------- *)

\* The constructor leaves both buffer pointers NULL and _running false, clamps
\* the channel count to the device's, picks the layout from it and marks the
\* first num_channels channels enabled.  The counter _failures and the
\* device's modules are initialised outside this file (bladerf_common,
\* libbladeRF): the counter starts at 0 and no module is enabled.

Members ==
  /\ max_channels = MaxChannels
  /\ num_channels \in 1..max_channels
  /\ _samples_per_buffer = 2 * BufUnits
  /\ _layout = IF num_channels > 1 THEN "RX_X2" ELSE "RX_X1"
  /\ _enables = [ch \in 0..(max_channels - 1) |-> ch < num_channels]
  /\ _running = FALSE
  /\ _failures = 0
  /\ _16icbuf = NULL
  /\ _32fcbuf = NULL
  /\ heap = {}
  /\ raw16 = <<>>
  /\ fc32 = <<>>
  /\ dev_enabled = [ch \in 0..(max_channels - 1) |-> FALSE]
  /\ out = [c \in 0..(num_channels - 1) |-> <<>>]
  /\ last = Result("none", 0, 0, FALSE, FALSE, <<>>)
  /\ oob = FALSE
  /\ clean = TRUE
  /\ consec = 0
  /\ failedSince = 0
  /\ fatal = FALSE
  /\ d_mutex = "none"
  /\ pc = [t \in {"sched", "app", "ctl"} |-> "idle"]
  /\ halted = FALSE
  /\ _was_running = FALSE
  /\ _chanmap = [ch \in 0..(max_channels - 1) |->
                   IF ch < num_channels THEN ch ELSE -1]

\* the option values the constructor finds in its argument string
Options ==
  [sampling : {"absent", "internal", "bogus"},
   biastee  : {"absent", "on"},
   loopback : {"absent", "firmware", "bogus"},
   rxmux    : {"absent", "12bit", "bogus"},
   agc_mode : {"absent", "manual", "bogus"}]

NoOptions ==
  [sampling |-> "absent", biastee |-> "absent", loopback |-> "absent",
   rxmux |-> "absent", agc_mode |-> "absent"]

\* the constructor at its option handling (stage: the option it is at);
\* applied is what it has set on the device, warned the options it has warned
\* about, threw whether an exception left it at this stage
Constructing(dict) ==
  [stage |-> "sampling", dict |-> dict, warned |-> {}, threw |-> FALSE,
   applied |-> [sampling |-> "unset", biastee |-> "unset", loopback |-> "unset",
                rxmux |-> "unset", agc_mode |-> "unset"]]

\* a block constructed from an argument string without options
Init ==
  /\ Members
  /\ ctor = [Constructing(NoOptions) EXCEPT
               !.stage = "done",
               !.applied.loopback = "none", !.applied.rxmux = "baseband"]

(* ------------------------------- start() ------------------------------- *)

\* the channels start() and stop() walk through, in order, up to and
\* including the one whose bladerf_enable_module call fails (fail = -1: none)
RECURSIVE ModuleCalls(_, _, _)
ModuleCalls(ch, enable, fail) ==
  IF ch >= max_channels THEN <<>>
  ELSE IF ~_enables[ch] THEN ModuleCalls(ch + 1, enable, fail)
  ELSE IF ch = fail THEN <<Call("enable_module", ch, enable, FALSE)>>
  ELSE <<Call("enable_module", ch, enable, TRUE)>>
           \o ModuleCalls(ch + 1, enable, fail)

\* the device's modules after the bladerf_enable_module calls in cs
ModulesAfter(cs, enable) ==
  [ch \in 0..(max_channels - 1) |->
     IF \E k \in 1..Len(cs) : cs[k].ch = ch /\ cs[k].ok
     THEN enable = 1 ELSE dev_enabled[ch]]

Threw(cs) == \E k \in 1..Len(cs) : ~cs[k].ok

Start(cfgOk, fail) ==
  /\ ~oob
  /\ ~cfgOk => fail = -1                   \* no channel is tried: fail is unused
  /\ LET cfg == <<Call("sync_config", -1, 0, cfgOk)>>
         en  == IF cfgOk THEN ModuleCalls(0, 1, fail) ELSE <<>>
         thr == Threw(cfg \o en)
         a16 == Malloc(heap)
         a32 == Malloc(heap \cup {a16})
     IN  /\ thr \/ Cardinality(heap) + 2 <= MaxHeapBlocks
         /\ dev_enabled' = ModulesAfter(en, 1)
         /\ IF thr
            THEN /\ UNCHANGED <<_running, _16icbuf, _32fcbuf, heap, raw16,
                                fc32, clean, consec>>
                 /\ last' = Result("start", 0, 0, TRUE, FALSE, cfg \o en)
            ELSE /\ _16icbuf' = a16
                 /\ _32fcbuf' = a32
                 /\ heap' = heap \cup {a16, a32}
                 /\ raw16' = Fresh(2 * _samples_per_buffer)
                 /\ fc32' = Fresh(2 * _samples_per_buffer)
                 /\ _running' = TRUE
                 /\ clean' = (_failures = 0)
                 /\ consec' = 0
                 /\ last' = Result("start", 0, 1, FALSE, FALSE,
                             cfg \o en \o <<Call("set_rfic_register", -1, 0, TRUE)>>)
  /\ out' = NoOutput
  /\ UNCHANGED <<config, _failures, oob, failedSince, fatal>>

(* ------------------------------- stop() -------------------------------- *)

\* (variant: the running check is missing)
StopIdleNever(running) == FALSE

\* "if (!_running)": stop() has nothing to do
StopIdle(running) == ~running

Stop(fail) ==
  /\ ~oob
  /\ IF StopIdle(_running)
     THEN /\ fail = -1                      \* no channel is tried: fail is unused
          /\ last' = Result("stop", 0, 1, FALSE, FALSE, <<>>)
          /\ UNCHANGED <<_running, _16icbuf, _32fcbuf, heap, raw16, fc32,
                         dev_enabled, fatal>>
     ELSE LET dis == ModuleCalls(0, 0, fail)
          IN  /\ _running' = FALSE
              /\ fatal' = FALSE
              /\ dev_enabled' = ModulesAfter(dis, 0)
              /\ IF Threw(dis)
                 THEN /\ UNCHANGED <<_16icbuf, _32fcbuf, heap, raw16, fc32>>
                      /\ last' = Result("stop", 0, 0, TRUE, FALSE, dis)
                 ELSE /\ heap' = heap \ {_16icbuf, _32fcbuf}
                      /\ _16icbuf' = NULL
                      /\ _32fcbuf' = NULL
                      /\ raw16' = <<>>
                      /\ fc32' = <<>>
                      /\ last' = Result("stop", 0, 1, FALSE, FALSE, dis)
  /\ out' = NoOutput
  /\ UNCHANGED <<config, _failures, oob, clean, consec, failedSince>>

(* ------------------------------- work() -------------------------------- *)

\* (variant: a success leaves the counter alone)
NextFailuresNoReset(f, ok) == IF ok THEN f ELSE f + 1

\* the failure counter after a transfer that returned status 0 (ok) or not
NextFailures(f, ok) == IF ok THEN 0 ELSE f + 1

\* (variant: ">" in place of ">=")
LimitHitStrict(f) == f > MAX_CONSECUTIVE_FAILURES

\* "_failures >= MAX_CONSECUTIVE_FAILURES", after the increment
LimitHit(f) == f >= MAX_CONSECUTIVE_FAILURES

\* cell j of a block; outside the block nothing is known
Cell(mem, j) == IF j \in DOMAIN mem THEN mem[j] ELSE <<>>

\* the raw memory after bladerf_sync_rx was asked for n samples, two int16
\* words each: on success the device's words, on failure indeterminate cells
AfterRx(mem, len, n, ok, phase) ==
  [j \in 0..(Max(len, 2 * n) - 1) |->
     IF j < 2 * n THEN (IF ok THEN <<DeviceWord(phase, j)>> ELSE <<>>)
     ELSE IF j < len THEN Cell(mem, j) ELSE <<>>]

\* a read of raw cell j; an indeterminate cell turns out to hold the word a
\* stale stream of the given phase left there
ReadWord(mem, phase, j) ==
  IF mem[j] = <<>> THEN DeviceWord(phase, j) ELSE mem[j][1]

\* (variant: "i <= noutput_items" in place of "i < noutput_items")
RECURSIVE ConvLoopInclusive(_, _, _, _, _)
ConvLoopInclusive(acc, mem, phase, i, n) ==
  IF i > n THEN acc
  ELSE LET w0 == ReadWord(mem, phase, i)
           w1 == ReadWord(mem, phase, i + 1)
           fb == [j \in DOMAIN acc.fbuf |->
                    IF j = i * 2 + 0 THEN Scale(LowByte(w0))
                    ELSE IF j = i * 2 + 1 THEN Scale(LowByte(w1))
                    ELSE IF j = i * 2 + 2 THEN Scale(HighByte(w0))
                    ELSE IF j = i * 2 + 3 THEN Scale(HighByte(w1))
                    ELSE acc.fbuf[j]]
       IN  ConvLoopInclusive(
             [fbuf |-> fb,
              rd |-> acc.rd \cup {i, i + 1},
              wr |-> acc.wr \cup {i * 2, i * 2 + 1, i * 2 + 2, i * 2 + 3}],
             mem, phase, i + 2, n)

\* for (i = 0; i < noutput_items; i += 2) { fbuf[i*2+0..3] = ... }
\* acc.fbuf is the float memory, acc.rd / acc.wr the indices read and written
RECURSIVE ConvLoop(_, _, _, _, _)
ConvLoop(acc, mem, phase, i, n) ==
  IF i >= n THEN acc
  ELSE LET w0 == ReadWord(mem, phase, i)
           w1 == ReadWord(mem, phase, i + 1)
           fb == [acc.fbuf EXCEPT ![i * 2 + 0] = Scale(LowByte(w0)),
                                  ![i * 2 + 1] = Scale(LowByte(w1)),
                                  ![i * 2 + 2] = Scale(HighByte(w0)),
                                  ![i * 2 + 3] = Scale(HighByte(w1))]
       IN  ConvLoop([fbuf |-> fb,
                     rd |-> acc.rd \cup {i, i + 1},
                     wr |-> acc.wr \cup {i * 2, i * 2 + 1, i * 2 + 2, i * 2 + 3}],
                    mem, phase, i + 2, n)

\* the gr_complex at index d of the converted buffer
Complex(fbuf, d) == <<fbuf[2 * d], fbuf[2 * d + 1]>>

\* (variant: the streams are handed to the ports in reverse)
RECURSIVE DeinterleaveSwapped(_, _, _, _, _, _, _)
DeinterleaveSwapped(o, fbuf, i, c, deint_in, n, nstreams) ==
  IF i >= n \div nstreams THEN o
  ELSE IF c >= nstreams
       THEN DeinterleaveSwapped(o, fbuf, i + 1, 0, deint_in, n, nstreams)
  ELSE DeinterleaveSwapped(
         [o EXCEPT ![nstreams - 1 - c] = Append(@, Complex(fbuf, deint_in))],
         fbuf, i, c + 1, deint_in + 1, n, nstreams)

\* for (i < noutput_items/nstreams) for (n < nstreams)
\*   memcpy(out[n]++, deint_in++, sizeof(gr_complex))
RECURSIVE Deinterleave(_, _, _, _, _, _, _)
Deinterleave(o, fbuf, i, c, deint_in, n, nstreams) ==
  IF i >= n \div nstreams THEN o
  ELSE IF c >= nstreams THEN Deinterleave(o, fbuf, i + 1, 0, deint_in, n, nstreams)
  ELSE Deinterleave([o EXCEPT ![c] = Append(@, Complex(fbuf, deint_in))],
                    fbuf, i, c + 1, deint_in + 1, n, nstreams)

\* memcpy(out[0], _32fcbuf, sizeof(gr_complex) * noutput_items)
CopyAll(o, fbuf, n) ==
  [o EXCEPT ![0] = [k \in 1..n |-> Complex(fbuf, k - 1)]]

\* the copy into output_items
Route(o, fbuf, n, nstreams) ==
  IF nstreams > 1 THEN Deinterleave(o, fbuf, 0, 0, 0, n, nstreams)
  ELSE CopyAll(o, fbuf, n)

\* (variant: the count per stream of a two-stream layout)
ProducedPerStream(n) == n \div 2

\* the value work() returns after converting and routing
Produced(n) == n

\* (variant: the running check is missing)
WorkIdleNever(running) == FALSE

\* "if (!_running)": work() has nothing to do
WorkIdle(running) == ~running

\* work() past the running check: mem is the raw memory after the transfer,
\* conv the result of the conversion loop (nothing when the limit is hit)
Transfer(n, ok, fault, done, mem, conv) ==
  LET len == 2 * _samples_per_buffer
      rx  == <<Call("sync_rx", -1, n, ok)>>
      outside == \/ _16icbuf = NULL \/ _32fcbuf = NULL
                 \/ 2 * n > len
                 \/ \E j \in conv.rd \cup conv.wr : j >= len
  IN  /\ fault => outside
      /\ oob' = outside
      /\ IF oob'
         THEN \* memory next to the blocks was overwritten: every cell is
              \* indeterminate from here on
              /\ raw16' = Fresh(len)
              /\ fc32' = Fresh(len)
              /\ out' = NoOutput
         ELSE /\ raw16' = [j \in 0..(len - 1) |-> mem[j]]
              /\ fc32' = [j \in 0..(len - 1) |-> conv.fbuf[j]]
              /\ out' = IF done THEN NoOutput
                        ELSE Route(NoOutput, conv.fbuf, n, num_streams(_layout))
      /\ last' = IF fault THEN Result("work", n, 0, FALSE, TRUE, rx)
                 ELSE IF done THEN Result("work", n, WORK_DONE, FALSE, FALSE, rx)
                 ELSE Result("work", n, Produced(n), FALSE, FALSE, rx)

\* work() returning at the running check
WorkNotRunning(n) ==
  /\ last' = Result("work", n, 0, FALSE, FALSE, <<>>)
  /\ out' = NoOutput
  /\ UNCHANGED <<_failures, raw16, fc32, oob, history>>

\* work() from the running check to its return
WorkRunning(n, ok, phase, fault) ==
  LET len   == 2 * _samples_per_buffer
      f     == NextFailures(_failures, ok)
      done  == ~ok /\ LimitHit(f)
      mem   == AfterRx(raw16, len, n, ok, phase)
      flen  == Max(len, 2 * n + 2)
      fmem  == [j \in 0..(flen - 1) |->
                  IF j < len THEN Cell(fc32, j) ELSE <<>>]
      none  == [fbuf |-> fmem, rd |-> {}, wr |-> {}]
  IN  /\ ok \/ _failures < MaxFailures
      /\ done => phase = 0                  \* nothing is read: phase is unused
      /\ _failures' = f
      /\ consec' = IF ok THEN 0 ELSE consec + 1
      /\ failedSince' = IF ok THEN 0 ELSE failedSince + 1
      /\ fatal' = (fatal \/ done)
      /\ UNCHANGED clean
      /\ Transfer(n, ok, fault, done, mem,
                  IF done THEN none ELSE ConvLoop(none, mem, phase, 0, n))

Work(n, ok, phase, fault) ==
  /\ ~oob
  /\ IF WorkIdle(_running)
     THEN /\ ok /\ phase = 0 /\ ~fault      \* no transfer: the inputs are unused
          /\ WorkNotRunning(n)
     ELSE WorkRunning(n, ok, phase, fault)
  /\ UNCHANGED <<config, _running, _16icbuf, _32fcbuf, heap, dev_enabled>>

Requests == (1..(_samples_per_buffer + MaxOver)) \cup {2 * _samples_per_buffer}

EnabledChannels == {ch \in Channels : _enables[ch]}

\* the calls made one after the other, each running to its return
Next ==
  \/ \E cfgOk \in BOOLEAN, fail \in {-1} \cup EnabledChannels :
        Start(cfgOk, fail) /\ UNCHANGED <<threads, ctor>>
  \/ \E fail \in {-1} \cup EnabledChannels :
        Stop(fail) /\ UNCHANGED <<threads, ctor>>
  \/ \E n \in Requests, ok \in BOOLEAN, phase \in Phases, fault \in BOOLEAN :
        Work(n, ok, phase, fault) /\ UNCHANGED <<threads, ctor>>

Spec == Init /\ [][Next]_vars

(* ------------------------ two threads, one lock ------------------------ *)

\* The scheduler thread calls work() over and over; the application thread
\* calls start(), stop() and set_antenna().  start(), stop() and work() take
\* a scoped lock on d_mutex at entry and hold it to their return, also when
\* they throw.  A call is modelled in steps: the lock is taken, the body runs,
\* and the lock is released with the return; work() has a step of its own for
\* the running check, and set_antenna(), which takes no lock itself, a step
\* for every statement.

\* (variant: the lock is taken without waiting for its holder)
CanLockAlways(holder) == TRUE

\* boost::mutex::scoped_lock lock(d_mutex): the lock can be taken
CanLock(holder) == holder = "none"

\* (variant: set_antenna() never stops the stream)
StopFirstNever(was_running) == FALSE

\* "if (_was_running)": set_antenna() stops the stream before the change
StopFirst(was_running) == was_running

\* the requests the scheduler makes under set_max_noutput_items
SchedRequests == {_samples_per_buffer}

Goto(t, label) == pc' = [pc EXCEPT ![t] = label]

SchedEnter ==
  /\ ~oob /\ pc["sched"] = "idle" /\ CanLock(d_mutex)
  /\ d_mutex' = "sched"
  /\ Goto("sched", "in")
  /\ UNCHANGED <<config, _running, _failures, _16icbuf, _32fcbuf, heap, raw16,
                 fc32, dev_enabled, out, last, oob, history,
                 _was_running, _chanmap, ctor, halted>>

SchedCheck(n) ==
  /\ ~oob /\ pc["sched"] = "in"
  /\ IF WorkIdle(_running)
     THEN /\ WorkNotRunning(n)
          /\ d_mutex' = "none"
          /\ Goto("sched", "idle")
     ELSE /\ Goto("sched", "past")
          /\ UNCHANGED <<_failures, raw16, fc32, out, last, oob, history, d_mutex>>
  /\ UNCHANGED <<config, _running, _16icbuf, _32fcbuf, heap, dev_enabled,
                 _was_running, _chanmap, ctor, halted>>

SchedTransfer(n, ok) ==
  /\ ~oob /\ pc["sched"] = "past"
  /\ WorkRunning(n, ok, 0, FALSE)
  /\ d_mutex' = "none"
  /\ Goto("sched", "idle")
  /\ UNCHANGED <<config, _running, _16icbuf, _32fcbuf, heap, dev_enabled,
                 _was_running, _chanmap, ctor, halted>>

\* what an unlocked read of _running can yield: its value, or anything while
\* another thread is inside stop() and about to write it
ReadRunning ==
  IF pc["ctl"] = "stop_in" /\ _running THEN BOOLEAN ELSE {_running}

\* the application thread calls start() or stop()
AppCall(op) ==
  /\ ~oob /\ pc["app"] = "idle"
  /\ Goto("app", IF op = "start" THEN "start_wait" ELSE "stop_wait")
  /\ UNCHANGED <<config, _running, _failures, _16icbuf, _32fcbuf, heap, raw16,
                 fc32, dev_enabled, out, last, oob, history,
                 d_mutex, _was_running, _chanmap, ctor, halted>>

\* bool _was_running = _running; if (_was_running) stop();
\* _running is read without the lock: seen is the value the read yields
AppSetAntenna(seen) ==
  /\ ~oob /\ pc["app"] = "idle"
  /\ seen \in ReadRunning
  /\ _was_running' = seen
  /\ Goto("app", IF StopFirst(seen) THEN "ant_stop_wait" ELSE "ant_change")
  /\ UNCHANGED <<config, _running, _failures, _16icbuf, _32fcbuf, heap, raw16,
                 fc32, dev_enabled, out, last, oob, history,
                 d_mutex, _chanmap, ctor, halted>>

AppEnter ==
  /\ ~oob
  /\ pc["app"] \in {"start_wait", "stop_wait", "ant_stop_wait", "ant_start_wait"}
  /\ CanLock(d_mutex)
  /\ d_mutex' = "app"
  /\ Goto("app", CASE pc["app"] = "start_wait" -> "start_in"
                    [] pc["app"] = "stop_wait" -> "stop_in"
                    [] pc["app"] = "ant_stop_wait" -> "ant_stop_in"
                    [] pc["app"] = "ant_start_wait" -> "ant_start_in")
  /\ UNCHANGED <<config, _running, _failures, _16icbuf, _32fcbuf, heap, raw16,
                 fc32, dev_enabled, out, last, oob, history,
                 _was_running, _chanmap, ctor, halted>>

\* the body of start(); an exception out of the start() that set_antenna()
\* calls leaves set_antenna() too
AppStart(cfgOk, fail) ==
  /\ pc["app"] \in {"start_in", "ant_start_in"}
  /\ Start(cfgOk, fail)
  /\ d_mutex' = "none"
  /\ Goto("app", "idle")
  /\ halted' = (halted /\ pc["app"] # "start_in")
  /\ UNCHANGED <<_was_running, _chanmap, ctor>>

\* the body of stop(); an exception out of the stop() that set_antenna()
\* calls leaves set_antenna() before the change
AppStop(fail) ==
  /\ pc["app"] \in {"stop_in", "ant_stop_in"}
  /\ Stop(fail)
  /\ d_mutex' = "none"
  /\ Goto("app", IF pc["app"] = "stop_in" \/ last'.threw THEN "idle"
                  ELSE "ant_change")
  /\ UNCHANGED <<_was_running, _chanmap, ctor, halted>>

\* bladerf_common::set_antenna(BLADERF_RX, chan, antenna) begins ...
AppChangeBegin ==
  /\ ~oob /\ pc["app"] = "ant_change"
  /\ Goto("app", "ant_changing")
  /\ UNCHANGED <<config, _running, _failures, _16icbuf, _32fcbuf, heap, raw16,
                 fc32, dev_enabled, out, last, oob, history,
                 d_mutex, _was_running, _chanmap, ctor, halted>>

\* ... and has wired block channel chan to device channel antenna;
\* if (_was_running) start();
AppChangeEnd(chan, antenna) ==
  /\ ~oob /\ pc["app"] = "ant_changing"
  /\ _chanmap' = [ch \in 0..(max_channels - 1) |->
                    IF ch = antenna THEN chan
                    ELSE IF _chanmap[ch] = chan THEN -1 ELSE _chanmap[ch]]
  /\ Goto("app", IF _was_running THEN "ant_start_wait" ELSE "idle")
  /\ UNCHANGED <<config, _running, _failures, _16icbuf, _32fcbuf, heap, raw16,
                 fc32, dev_enabled, out, last, oob, history,
                 d_mutex, _was_running, ctor, halted>>

\* a control thread calls stop()
CtlCall ==
  /\ ~oob /\ pc["ctl"] = "idle"
  /\ Goto("ctl", "stop_wait")
  /\ UNCHANGED <<config, _running, _failures, _16icbuf, _32fcbuf, heap, raw16,
                 fc32, dev_enabled, out, last, oob, history,
                 d_mutex, _was_running, _chanmap, ctor, halted>>

CtlEnter ==
  /\ ~oob /\ pc["ctl"] = "stop_wait" /\ CanLock(d_mutex)
  /\ d_mutex' = "ctl"
  /\ Goto("ctl", "stop_in")
  /\ UNCHANGED <<config, _running, _failures, _16icbuf, _32fcbuf, heap, raw16,
                 fc32, dev_enabled, out, last, oob, history,
                 _was_running, _chanmap, ctor, halted>>

\* the body of the control thread's stop()
CtlStop(fail) ==
  /\ pc["ctl"] = "stop_in"
  /\ Stop(fail)
  /\ d_mutex' = "none"
  /\ Goto("ctl", "idle")
  /\ halted' = (halted \/ ~last'.threw)
  /\ UNCHANGED <<_was_running, _chanmap, ctor>>

NextThreads ==
  \/ SchedEnter
  \/ \E n \in SchedRequests : SchedCheck(n)
  \/ \E n \in SchedRequests : SchedTransfer(n, TRUE)
  \/ \E op \in {"start", "stop"} : AppCall(op)
  \/ \E seen \in BOOLEAN : AppSetAntenna(seen)
  \/ AppEnter
  \/ \E cfgOk \in BOOLEAN, fail \in {-1} \cup EnabledChannels : AppStart(cfgOk, fail)
  \/ \E fail \in {-1} \cup EnabledChannels : AppStop(fail)
  \/ AppChangeBegin
  \/ \E chan \in 0..(num_channels - 1), antenna \in Channels :
        AppChangeEnd(chan, antenna)

SpecThreads == Init /\ [][NextThreads]_vars

\* the same two threads and a control thread that calls stop()
NextControl ==
  \/ SchedEnter
  \/ \E n \in SchedRequests : SchedCheck(n)
  \/ \E n \in SchedRequests : SchedTransfer(n, TRUE)
  \/ \E op \in {"start", "stop"} : AppCall(op)
  \/ \E seen \in BOOLEAN : AppSetAntenna(seen)
  \/ AppEnter
  \/ \E cfgOk \in BOOLEAN, fail \in {-1} \cup EnabledChannels : AppStart(cfgOk, fail)
  \/ \E fail \in {-1} \cup EnabledChannels : AppStop(fail)
  \/ AppChangeBegin
  \/ \E chan \in 0..(num_channels - 1), antenna \in Channels :
        AppChangeEnd(chan, antenna)
  \/ CtlCall
  \/ CtlEnter
  \/ \E fail \in {-1} \cup EnabledChannels : CtlStop(fail)

SpecControl == Init /\ [][NextControl]_vars

(* ---------------------- the constructor's options ---------------------- *)

\* what the device answers to a setting: 0, BLADERF_ERR_UNSUPPORTED or
\* another error
Statuses == {"ok", "unsupported", "error"}

Warn(c, key) == [c EXCEPT !.warned = @ \cup {key}]
Throw(c) == [c EXCEPT !.threw = TRUE]
Apply(c, key, mode) == [c EXCEPT !.applied[key] = mode]

\* a setter that forwards the mode to the device: an unsupported setting is
\* warned about, any other error thrown
Forward(c, key, mode, status) ==
  IF status = "unsupported" THEN Warn(c, key)
  ELSE IF status # "ok" THEN Throw(c)
  ELSE Apply(c, key, mode)

\* "Handle setting of sampling mode"
SetSampling(c, sampling, status) ==
  IF sampling \notin {"internal", "external"} THEN Warn(c, "sampling")
  ELSE IF status # "ok" THEN Warn(c, "sampling")
  ELSE Apply(c, "sampling", sampling)

set_biastee_mode(c, mode, status) ==
  Forward(c, "biastee", IF mode \in {"on", "1", "rx"} THEN "on" ELSE "off", status)

LoopbackModes ==
  {"bb_txlpf_rxvga2", "bb_txlpf_rxlpf", "bb_txvga1_rxvga2", "bb_txvga1_rxlpf",
   "rf_lna1", "rf_lna2", "rf_lna3", "firmware", "rfic_bist", "none"}

set_loopback_mode(c, loopback, status) ==
  IF loopback \notin LoopbackModes THEN Throw(c)
  ELSE Forward(c, "loopback", loopback, status)

RxMuxModes == {"baseband", "12bit", "32bit", "digital"}

set_rx_mux_mode(c, rxmux, status) ==
  IF rxmux \notin RxMuxModes THEN Throw(c)
  ELSE Forward(c, "rxmux", rxmux, status)

\* the names bladerf_get_gain_modes reports
GainModes == {"automatic", "manual"}

\* status: the outcome of bladerf_get_gain_modes
set_agc_mode(c, agcmode, status) ==
  IF status # "ok" THEN Throw(c)
  ELSE IF agcmode \notin GainModes THEN Warn(c, "agc_mode")
  ELSE Apply(c, "agc_mode", agcmode)

\* the constructor moves on to the next option unless an exception left it
Advance(c, stage) == IF c.threw THEN c ELSE [c EXCEPT !.stage = stage]

\* if (dict.count("sampling")) { ... }
CtorSampling(status) ==
  /\ ctor.stage = "sampling" /\ ~ctor.threw
  /\ ctor' = Advance(IF ctor.dict.sampling = "absent" THEN ctor
                     ELSE SetSampling(ctor, ctor.dict.sampling, status),
                     "biastee")
  /\ ctor.dict.sampling \in {"absent", "bogus"} => status = "ok"
  /\ UNCHANGED <<config, _running, _failures, _16icbuf, _32fcbuf, heap, raw16,
                 fc32, dev_enabled, out, last, oob, history, threads>>

\* if (dict.count("biastee")) set_biastee_mode(dict["biastee"]);
CtorBiastee(status) ==
  /\ ctor.stage = "biastee" /\ ~ctor.threw
  /\ ctor' = Advance(IF ctor.dict.biastee = "absent" THEN ctor
                     ELSE set_biastee_mode(ctor, ctor.dict.biastee, status),
                     "loopback")
  /\ ctor.dict.biastee = "absent" => status = "ok"
  /\ UNCHANGED <<config, _running, _failures, _16icbuf, _32fcbuf, heap, raw16,
                 fc32, dev_enabled, out, last, oob, history, threads>>

\* set_loopback_mode(dict.count("loopback") ? dict["loopback"] : "none");
CtorLoopback(status) ==
  /\ ctor.stage = "loopback" /\ ~ctor.threw
  /\ ctor' = Advance(set_loopback_mode(ctor,
                       IF ctor.dict.loopback = "absent" THEN "none"
                       ELSE ctor.dict.loopback, status),
                     "rxmux")
  /\ ctor.dict.loopback = "bogus" => status = "ok"
  /\ UNCHANGED <<config, _running, _failures, _16icbuf, _32fcbuf, heap, raw16,
                 fc32, dev_enabled, out, last, oob, history, threads>>

\* set_rx_mux_mode(dict.count("rxmux") ? dict["rxmux"] : "baseband");
CtorRxMux(status) ==
  /\ ctor.stage = "rxmux" /\ ~ctor.threw
  /\ ctor' = Advance(set_rx_mux_mode(ctor,
                       IF ctor.dict.rxmux = "absent" THEN "baseband"
                       ELSE ctor.dict.rxmux, status),
                     "agc_mode")
  /\ ctor.dict.rxmux = "bogus" => status = "ok"
  /\ UNCHANGED <<config, _running, _failures, _16icbuf, _32fcbuf, heap, raw16,
                 fc32, dev_enabled, out, last, oob, history, threads>>

\* if (dict.count("agc_mode")) set_agc_mode(dict["agc_mode"]);
\* and the constructor runs to its end
CtorAgcMode(status) ==
  /\ ctor.stage = "agc_mode" /\ ~ctor.threw
  /\ ctor' = Advance(IF ctor.dict.agc_mode = "absent" THEN ctor
                     ELSE set_agc_mode(ctor, ctor.dict.agc_mode, status),
                     "done")
  /\ status # "unsupported"
  /\ ctor.dict.agc_mode = "absent" => status = "ok"
  /\ UNCHANGED <<config, _running, _failures, _16icbuf, _32fcbuf, heap, raw16,
                 fc32, dev_enabled, out, last, oob, history, threads>>

InitCtor ==
  /\ Members
  /\ \E dict \in Options : ctor = Constructing(dict)

NextCtor ==
  \/ \E status \in Statuses : CtorSampling(status)
  \/ \E status \in Statuses : CtorBiastee(status)
  \/ \E status \in Statuses : CtorLoopback(status)
  \/ \E status \in Statuses : CtorRxMux(status)
  \/ \E status \in Statuses : CtorAgcMode(status)

SpecCtor == InitCtor /\ [][NextCtor]_vars

(* ------------------------------ properties ----------------------------- *)

\* the last call was a work() that went past the running check
Transferred == last.op = "work" /\ last.calls # <<>> /\ ~last.fault
TransferOk == last.calls[1].ok

HasCall(cs, api) == \E k \in 1..Len(cs) : cs[k].api = api

\* C1: in a session that started with the failure counter at zero, work()
\* returns WORK_DONE on the call in which the counter reaches
\* MAX_CONSECUTIVE_FAILURES, and returns WORK_DONE only on a call that is at
\* least the MAX_CONSECUTIVE_FAILURES-th failed transfer in a row.
C1_Threshold ==
  (clean /\ Transferred) =>
    /\ (~TransferOk /\ _failures = MAX_CONSECUTIVE_FAILURES) => last.ret = WORK_DONE
    /\ last.ret = WORK_DONE => consec >= MAX_CONSECUTIVE_FAILURES

C1_Witness ==
  /\ clean /\ Transferred /\ last.ret = WORK_DONE
  /\ consec = MAX_CONSECUTIVE_FAILURES

\* C2: the failure counter always equals the number of failed transfers
\* since the most recent successful one (each failure adds one, each success
\* sets it to zero).
C2_CounterTracks == _failures = failedSince

C2_Witness ==
  Transferred /\ ~TransferOk /\ ~clean /\ _failures = 2 /\ consec = 1

\* C3: a work() call whose transfer fails below the threshold returns zero
\* produced samples, writes nothing to the outputs, and leaves the session
\* running.
C3_FailedTransferProducesNothing ==
  (Transferred /\ ~TransferOk /\ ~oob /\ _failures < MAX_CONSECUTIVE_FAILURES) =>
    /\ last.ret = 0
    /\ out = NoOutput
    /\ _running

\* C4 as stated: every work(n) call that does not return WORK_DONE returns a
\* multiple of the channel count that is at most min(n, samples_per_buffer).
C4_Original ==
  (last.op = "work" /\ ~last.fault /\ last.ret # WORK_DONE) =>
    /\ last.ret % num_channels = 0
    /\ last.ret <= Min(last.n, _samples_per_buffer)

\* C4, amended: a work(n) call that does not return WORK_DONE returns 0 when
\* the session is not running and n otherwise, uncapped and unrounded; so the
\* count is a multiple of the channel count and at most
\* min(n, samples_per_buffer) when n itself is (the requests the scheduler
\* makes under set_output_multiple and set_max_noutput_items), and
\* work(2 * samples_per_buffer) returns 2 * samples_per_buffer.
C4_Amended ==
  (last.op = "work" /\ ~last.fault /\ last.ret # WORK_DONE) =>
    /\ last.ret = IF last.calls = <<>> THEN 0 ELSE last.n
    /\ (last.n % num_channels = 0 /\ last.n <= _samples_per_buffer) =>
         /\ last.ret % num_channels = 0
         /\ last.ret <= Min(last.n, _samples_per_buffer)

C4_Witness ==
  /\ Transferred /\ ~oob /\ num_channels = 2
  /\ last.n = _samples_per_buffer /\ last.ret = _samples_per_buffer

\* C5: while the running flag is false, work() returns 0, makes no device
\* call, writes no output and leaves both scratch buffers and the failure
\* counter as they were.
C5_IdleWork ==
  [][(~_running /\ last'.op = "work") =>
       /\ last'.ret = 0
       /\ last'.calls = <<>>
       /\ out' = NoOutput
       /\ UNCHANGED <<_running, _failures, _16icbuf, _32fcbuf, heap, raw16, fc32>>
    ]_vars

C5_Witness ==
  /\ last.op = "work" /\ ~_running /\ last.ret = 0
  /\ _failures > 0

\* C6: stop() on a stopped session returns true and changes nothing: no
\* device call, no buffer freed, running flag and failure counter unchanged.
C6_IdleStop ==
  [][(~_running /\ last'.op = "stop") =>
       /\ last'.ret = 1 /\ ~last'.threw
       /\ last'.calls = <<>>
       /\ UNCHANGED <<_running, _failures, _16icbuf, _32fcbuf, heap, raw16, fc32,
                      dev_enabled>>
    ]_vars

C6_Witness ==
  /\ last.op = "stop" /\ last.calls = <<>> /\ last.ret = 1 /\ ~_running
  /\ _failures > 0

\* C7: start() on a running session fails and leaves the session as it was:
\* the stream configuration is not applied again, the scratch buffers are
\* neither replaced nor leaked, and the running flag stays true.
C7_SecondStartFails ==
  [][(_running /\ last'.op = "start") =>
       /\ last'.ret = 0
       /\ ~HasCall(last'.calls, "sync_config")
       /\ UNCHANGED <<_16icbuf, _32fcbuf, heap>>
       /\ _running'
    ]_vars

\* C8: a start() that fails on a stopped session with nothing allocated
\* surfaces the error and leaves the session fully stopped: running flag
\* false, no scratch buffer allocated, and no channel it enabled left enabled.
C8_FailedStartRollsBack ==
  [][(~_running /\ heap = {} /\ last'.op = "start" /\ last'.threw) =>
       /\ ~_running'
       /\ _16icbuf' = NULL /\ _32fcbuf' = NULL /\ heap' = {}
       /\ \A k \in 1..Len(last'.calls) :
            (last'.calls[k].api = "enable_module" /\ last'.calls[k].ok)
              => ~dev_enabled'[last'.calls[k].ch]
    ]_vars

\* C9: once work() has returned WORK_DONE in a session, no later work() call
\* of that session returns a positive count.
C9_FatalIsTerminal ==
  (fatal /\ last.op = "work" /\ ~last.fault /\ ~oob) => last.ret <= 0

WordOf(lo, hi) ==
  LET u == (hi % 256) * 256 + (lo % 256)
  IN  IF u >= 32768 THEN u - 65536 ELSE u

\* byte b of the raw buffer, in memory order (low byte of a word first)
ByteAt(mem, b) ==
  IF b % 2 = 0 THEN LowByte(mem[b \div 2][1]) ELSE HighByte(mem[b \div 2][1])

SuccessfulWork == Transferred /\ TransferOk /\ last.ret > 0 /\ ~oob

C15_BuffersIffRunning ==
  /\ (_16icbuf # NULL) <=> _running
  /\ (_32fcbuf # NULL) <=> _running

\* C16: each start() applies the stream configuration once, before any channel
\* is enabled, and enables no channel unless the configuration succeeded; and
\* a session has the configuration applied once only, so a start() on a
\* running session does not apply it again.
C16_ConfigOncePerSession ==
  [][(last'.op = "start") =>
       /\ last'.calls[1].api = "sync_config"
       /\ \A k \in 2..Len(last'.calls) : last'.calls[k].api # "sync_config"
       /\ HasCall(last'.calls, "enable_module") => last'.calls[1].ok
       /\ _running => ~last'.calls[1].ok
    ]_vars

\* C17: every raw word a successful work(n) fetched from the device is
\* converted and delivered by that call.
C17_NothingDropped ==
  SuccessfulWork =>
    \A j \in 0..(2 * last.n - 1) :
      \A b \in {LowByte(raw16[j][1]), HighByte(raw16[j][1])} :
        \E c \in DOMAIN out : \E k \in 1..Len(out[c]) :
          <<b, 127>> \in {out[c][k][1], out[c][k][2]}

\* C18: in every session, also one begun after a session that ended on
\* WORK_DONE, work() returns WORK_DONE only on a call that is at least the
\* MAX_CONSECUTIVE_FAILURES-th failed transfer in a row of that session.
C18_FreshSessionTolerates ==
  (Transferred /\ ~oob /\ last.ret = WORK_DONE) =>
    consec >= MAX_CONSECUTIVE_FAILURES

\* C19: a work(n) call with 1 <= n <= samples_per_buffer, odd or even, accesses
\* no memory outside the two scratch buffers.
C19_InBounds ==
  (last.op = "work" /\ last.calls # <<>> /\ last.n <= _samples_per_buffer) =>
    ~oob /\ ~last.fault

C19_Witness ==
  /\ Transferred /\ ~oob /\ last.n % 2 = 1 /\ last.ret = last.n

\* C20: after a successful work(n), every output port holds as many samples
\* as the call returned.
C20_WrittenEqualsReturned ==
  SuccessfulWork => \A c \in DOMAIN out : Len(out[c]) = last.ret

InLock(t) ==
  IF t = "sched" THEN pc[t] \in {"in", "past"}
  ELSE pc[t] \in {"start_in", "stop_in", "ant_stop_in", "ant_start_in"}

\* C12: start(), stop() and work() exclude one another: a thread inside one of
\* them holds the lock and the other thread is inside none; while work() is
\* between its running check and its return the session stays running, its
\* channels stay enabled and both scratch buffers stay allocated; and work()
\* never accesses memory that is not an allocated buffer.
C12_MutualExclusion ==
  /\ \A t \in {"sched", "app"} : InLock(t) => d_mutex = t
  /\ ~(InLock("sched") /\ InLock("app"))
  /\ pc["sched"] = "past" =>
       /\ _running
       /\ _16icbuf \in heap /\ _32fcbuf \in heap
       /\ \A ch \in EnabledChannels : dev_enabled[ch]
  /\ ~oob

C12_Witness ==
  pc["sched"] = "past" /\ pc["app"] = "stop_wait"

\* C13: set_antenna() on a running session stops the session, then changes
\* the channel map, then starts the session again; while it changes the
\* channel map the session is stopped and no work() call is past its running
\* check.
C13_AntennaChangeWhileStopped ==
  /\ pc["app"] = "ant_stop_wait" => _was_running
  /\ (pc["app"] \in {"ant_change", "ant_changing"} /\ _was_running) =>
       /\ ~_running
       /\ _16icbuf = NULL /\ _32fcbuf = NULL
       /\ \A ch \in EnabledChannels : ~dev_enabled[ch]
       /\ pc["sched"] # "past"
  /\ pc["app"] \in {"ant_start_wait", "ant_start_in"} => _was_running /\ ~_running

C13_Witness ==
  pc["app"] = "ant_changing" /\ _was_running /\ pc["sched"] = "in"

ModeKeys == {"sampling", "loopback", "rxmux", "agc_mode"}

\* the value is neither absent nor one the setter knows
Malformed(key) == ctor.dict[key] = "bogus"

\* the constructor handles its options in this order
StageNo(stage) ==
  CASE stage = "sampling" -> 1 [] stage = "biastee" -> 2
    [] stage = "loopback" -> 3 [] stage = "rxmux" -> 4
    [] stage = "agc_mode" -> 5 [] stage = "done" -> 6

\* C14: an unknown mode string for sampling, loopback, RX mux or AGC mode
\* raises no exception: the setter warns and sets nothing on the device, and
\* the constructor goes on.
C14_UnknownModeNotFatal ==
  \A key \in ModeKeys :
    Malformed(key) =>
      /\ ~(ctor.threw /\ ctor.stage = key)
      /\ StageNo(ctor.stage) > StageNo(key) =>
           key \in ctor.warned /\ ctor.applied[key] = "unset"

\* C21: once a stop() called by the control thread has returned, the session
\* is not running again until the application calls start(): set_antenna()
\* does not restart it.
C21_StoppedStaysStopped == halted => ~_running
====
